---------------------------- MODULE Spec2Model ----------------------------
(***************************************************************************)
(* Model of src/main.py: the typing trial engine (TypingFrame), the        *)
(* persisted score ledger (scores.csv, TypingFrame.save_score) and the     *)
(* word bubble game (BubbleFrame).                                         *)
(*                                                                         *)
(* Texts are sequences of one-character strings.  Numbers that the code    *)
(* holds as floats are exact rationals [num, den] here; the "%.2f"         *)
(* formatting is Format2 (a decimal string, kept as sign / whole part /    *)
(* two fraction digits) and float() of such a string is ParseFloat (in     *)
(* hundredths).  The clock is time.time() in seconds, read at multiples of *)
(* ClockStep.  Widget rendering (colour tags, labels, canvas items) is not *)
(* state of the engine and is left out.  A callback scheduled with after() *)
(* is a count of pending callbacks; it fires at any later step, and not at *)
(* all once its frame is destroyed.                                        *)
(***************************************************************************)
EXTENDS Integers, Sequences, FiniteSets

VARIABLES
    mode,          \* TypingFrame.mode: "stopwatch" | "countdown"
    text_to_type,  \* TypingFrame.text_to_type, the reference passage
    start_time,    \* TypingFrame.start_time: None or the clock at start
    running,       \* TypingFrame.running
    entry,         \* content of the entry Text widget ("1.0" .. "end-1c")
    entry_state,   \* state of the entry widget: "normal" | "disabled"
    pending,       \* number of update_timer callbacks scheduled with after()
    result_label,  \* <<>> (empty label) or <<row>>: the result displayed
    raised,        \* number of uncaught ZeroDivisionError in a handler
    now,           \* time.time()
    backs,         \* number of backward steps the system clock has made
    event,         \* the handler that ran last
    scores,        \* scores.csv: [exists, rows]
    new_entry,     \* <<>> or <<row>>: the row of the latest save_score call
    evicted,       \* rows the latest save_score call sliced off
    saves,         \* number of save_score calls
    increasing_run, \* the latest strictly increasing run of recorded rows
    high_score,    \* what get_high_score returned to the latest main menu
    max_recorded,  \* the highest WPM save_score ever wrote, 0 before any
    current_frame, \* the frame shown: TypingApp.current_frame
    sentences,     \* TypingApp.sentences, the short passages
    long_texts,    \* TypingApp.long_texts, the long passages
    words,         \* TypingApp.words, the lines of words.txt
    game_running,  \* BubbleFrame.running
    strikes,       \* BubbleFrame.strikes
    bubbles,       \* BubbleFrame.bubbles, in spawn order
    score,         \* BubbleFrame.score
    speed,         \* BubbleFrame.speed
    spawn_interval, \* BubbleFrame.spawn_interval
    words_pool,    \* BubbleFrame.words_pool
    used_words,    \* BubbleFrame.used_words
    game_entry,    \* content of the Entry widget of the game
    spawn_pending, \* number of spawn_bubble callbacks scheduled with after()
    spawn_delay,   \* the delay the latest spawn_bubble callback was given
    motion_pending, \* number of update_bubbles callbacks scheduled
    game_over,     \* number of GAME OVER texts game_over() has drawn
    index_errors,  \* number of uncaught IndexError
    fine_ticks,    \* number of single motion ticks taken in this game
    limits         \* the bounds this run of the game is followed within

trialVars == <<mode, text_to_type, start_time, running, entry, entry_state,
               pending, result_label, raised, event>>
clockVars == <<now, backs>>
ledgerVars == <<scores, new_entry, evicted, saves, increasing_run,
                max_recorded>>
resources == <<sentences, long_texts, words>>
menuVars == <<high_score, current_frame, resources>>
gameVars == <<game_running, strikes, bubbles, score, speed, spawn_interval,
              words_pool, used_words, game_entry, spawn_pending, spawn_delay,
              motion_pending, game_over, index_errors, fine_ticks, limits>>
vars == <<trialVars, clockVars, ledgerVars, menuVars, gameVars>>

-----------------------------------------------------------------------------
(* Bounds of the model *)

MaxTyped == 3          \* longest entry text
ClockStep == 20        \* seconds between two readings of the clock
MaxIdleSteps == 1      \* clock steps before the trial starts
MaxElapsedSteps == 4   \* clock steps after the trial started
MaxBackSteps == 1      \* backward adjustments of the system clock
MaxSaves == 6          \* save_score calls in the ledger specification
MaxWpmHalves == 5      \* ledger specification: wpm inputs 0, 0.5, .., this/2
MaxBubbles == 2        \* live bubbles of the game
MaxScore == 3          \* matches of one game
MaxFineTicks == 1      \* motion ticks of one game that are taken one by one
TicksPerStep == 157    \* motion ticks that otherwise fire in a row
MaxGameTyped == 2      \* longest text in the entry of the game
MaxDifficultyScore == 120 \* matches of one game when difficulty is followed
MaxMissTyped == 1      \* longest text in the entry of a player who never matches

(* Program constants *)

TIME_LIMIT == 60       \* self.time_limit in countdown mode
TOP_K == 5             \* [:5] in save_score
INITIAL_SPEED == 2     \* self.speed = 2
MAX_SPEED == 25        \* self.max_speed
INITIAL_SPAWN_INTERVAL == 2500 \* self.spawn_interval = 2500
MIN_SPAWN_INTERVAL == 1200 \* self.min_spawn_interval
SPAWN_Y == -30         \* y = -30 in spawn_bubble
FLOOR_Y == 600         \* if bubble["y"] >= 600
MAX_STRIKES == 3       \* if self.strikes >= 3
SPEED_EVERY == 5       \* self.score % 5 == 0
INTERVAL_EVERY == 3    \* self.score % 3 == 0
INTERVAL_STEP == 100   \* self.spawn_interval -= 100

None == <<>>
Some(x) == <<x>>

Modes == {"stopwatch", "countdown"}
Whitespace == {" ", "\n"}
KeyChars == {"a", " "}
References == {<<>>, <<"a">>, <<"a", "b">>}
ClockBase == 50 * ClockStep
DEFAULT_TEXT ==
    <<"D", "e", "f", "a", "u", "l", "t", " ", "t", "e", "x", "t", ".">>
PassageLists == {<<>>, <<<<"a">>>>, <<<<"a">>, <<"a", "b">>>>}
LongLists == {<<>>, <<<<"a", "b", "a">>>>}
GameKeys == {"a", " "}
WordA == <<"a">>
WordAA == <<"a", "a">>
WordB == <<"b">>
Vocabularies == {<<>>, <<WordA, WordA>>, <<WordA, WordAA, WordB>>}
ArcadeLimits ==
    [bubbles |-> MaxBubbles, score |-> MaxScore, fine |-> MaxFineTicks,
     typed |-> MaxGameTyped]
UnmatchedLimits ==
    [bubbles |-> MaxBubbles, score |-> MaxScore, fine |-> MaxFineTicks,
     typed |-> MaxMissTyped]
DifficultyLimits ==
    [bubbles |-> 1, score |-> MaxDifficultyScore, fine |-> 0, typed |-> 1]

-----------------------------------------------------------------------------
(* Rationals and the "%.2f" / float() conversions *)

Rat(n, d) == [num |-> n, den |-> d]

\* a / b for rationals, b # 0; the denominator is kept positive
RatDiv(a, b) ==
    IF b.num > 0 THEN Rat(a.num * b.den, a.den * b.num)
                 ELSE Rat(-(a.num * b.den), a.den * (-b.num))

Abs(x) == IF x < 0 THEN -x ELSE x

\* |r| in hundredths, rounded to nearest, ties to even
RoundHundredths(r) ==
    LET m == Abs(r.num) * 100
        q == m \div r.den
        rem == m % r.den
    IN  IF 2 * rem > r.den THEN q + 1
        ELSE IF 2 * rem < r.den THEN q
        ELSE IF q % 2 = 0 THEN q ELSE q + 1

\* f"{x:.2f}": the decimal string, as sign, whole part and two fraction digits
Format2(r) ==
    LET h == RoundHundredths(r)
    IN  [neg |-> r.num < 0, whole |-> h \div 100, frac |-> h % 100]

\* float(s) of such a string, in hundredths
ParseFloat(s) == (IF s.neg THEN -1 ELSE 1) * (s.whole * 100 + s.frac)

-----------------------------------------------------------------------------
(* Text helpers *)

Min(a, b) == IF a < b THEN a ELSE b
Max(a, b) == IF a > b THEN a ELSE b

RECURSIVE LStrip(_)
LStrip(s) ==
    IF s # <<>> /\ Head(s) \in Whitespace THEN LStrip(Tail(s)) ELSE s

RECURSIVE RStrip(_)
RStrip(s) ==
    IF s # <<>> /\ s[Len(s)] \in Whitespace
    THEN RStrip(SubSeq(s, 1, Len(s) - 1)) ELSE s

\* a strip() that removes nothing
StripNothing(s) == s

\* str.strip()
Strip(s) == RStrip(LStrip(s))

\* sum(1 for a, b in zip(typed, ref) if a == b)
CorrectChars(typed, ref) ==
    Cardinality({i \in 1..Min(Len(typed), Len(ref)) : typed[i] = ref[i]})

-----------------------------------------------------------------------------
(* The score ledger: TypingFrame.save_score *)

Row(t, w, a) == [Time |-> t, WPM |-> w, Accuracy |-> a]

\* key=lambda x: float(x["WPM"])
WpmKey(row) == ParseFloat(row.WPM)

\* a descending sort that puts x before the elements of equal key
InsertDescBeforeTies(s, x) ==
    LET p == Cardinality({i \in 1..Len(s) : ParseFloat(s[i].WPM) > ParseFloat(x.WPM)})
    IN  SubSeq(s, 1, p) \o <<x>> \o SubSeq(s, p + 1, Len(s))

\* one step of a stable descending sort: x goes behind every element of the
\* sorted sequence s whose key is at least its own
InsertDesc(s, x) ==
    LET p == Cardinality({i \in 1..Len(s) : WpmKey(s[i]) >= WpmKey(x)})
    IN  SubSeq(s, 1, p) \o <<x>> \o SubSeq(s, p + 1, Len(s))

\* the rows left in file order, the new row last
Unsorted(s) == s

\* sorted(rows, key=WpmKey, reverse=True): stable, equal keys keep their order
RECURSIVE SortedByWpmDesc(_)
SortedByWpmDesc(s) ==
    IF s = <<>> THEN <<>>
    ELSE InsertDesc(SortedByWpmDesc(SubSeq(s, 1, Len(s) - 1)), s[Len(s)])

\* a slice that drops nothing
TopSliceAll(s) == s

\* s[:TOP_K]
TopSlice(s) == SubSeq(s, 1, Min(TOP_K, Len(s)))

\* s[TOP_K:], what the slice drops
RestSlice(s) == SubSeq(s, TOP_K + 1, Len(s))

\* list(csv.DictReader(f)) when the file exists, [] otherwise
ReadScores == IF scores.exists THEN scores.rows ELSE <<>>

\* the latest strictly increasing run of recorded WPM values
RunAfter(row) ==
    IF increasing_run # <<>>
       /\ WpmKey(row) > WpmKey(increasing_run[Len(increasing_run)])
    THEN Append(increasing_run, row)
    ELSE <<row>>

\* save_score(time_taken, wpm, accuracy), the arguments being rationals
save_score(time_taken, wpm, accuracy) ==
    LET row == Row(Format2(time_taken), Format2(wpm), Format2(accuracy))
        sorted == SortedByWpmDesc(Append(ReadScores, row))
    IN  /\ new_entry' = Some(row)
        /\ scores' = [exists |-> TRUE, rows |-> TopSlice(sorted)]
        /\ evicted' = RestSlice(sorted)
        /\ saves' = saves + 1
        /\ increasing_run' = RunAfter(row)
        /\ max_recorded' = Max(max_recorded, WpmKey(row))

-----------------------------------------------------------------------------
(* The metrics of TypingFrame.calculate_results *)

\* elapsed = time.time() - self.start_time if self.start_time else 0
ResultElapsed(st) == IF st # None /\ st[1] # 0 THEN now - st[1] ELSE 0

\* the divisor of the accuracy quotient
AccuracyDivisor(typed, ref) == Len(typed)

\* (correct_chars / len(typed_text)) * 100 if self.text_to_type else 0
Accuracy(typed, ref) ==
    IF ref # <<>>
    THEN Rat(CorrectChars(typed, ref) * 100, AccuracyDivisor(typed, ref))
    ELSE Rat(0, 1)

\* words = len(typed_text) / 5
Words(typed) == Rat(Len(typed), 5)

\* minutes without the floor of 1 for elapsed <= 0
MinutesNoFloor(elapsed) == Rat(elapsed, 60)

\* minutes = elapsed / 60 if elapsed > 0 else 1
Minutes(elapsed) == IF elapsed > 0 THEN Rat(elapsed, 60) ELSE Rat(1, 1)

\* wpm = words / minutes
Wpm(typed, elapsed) == RatDiv(Words(typed), Minutes(elapsed))

\* the divisions of calculate_results that raise ZeroDivisionError
ZeroDivision(typed, ref, elapsed) ==
    \/ ref # <<>> /\ AccuracyDivisor(typed, ref) = 0
    \/ Minutes(elapsed).den = 0
    \/ Minutes(elapsed).num = 0

-----------------------------------------------------------------------------
(* The typing trial: TypingFrame *)

\* elapsed = time.time() - self.start_time, in update_timer
TimerElapsed(st) == now - st[1]

\* remaining = max(0, self.time_limit - elapsed)
Remaining(elapsed) == Max(0, TIME_LIMIT - elapsed)

\* a timer that ends the trial in either mode
TimerFinishesAnyMode(elapsed) == Max(0, TIME_LIMIT - elapsed) <= 0

\* update_timer ends the trial: countdown mode and remaining <= 0
TimerFinishes(elapsed) == mode = "countdown" /\ Remaining(elapsed) <= 0

\* calculate_results(event) with self.running = run, self.start_time = st
calculate_results(run, st) ==
    IF ~run
    THEN /\ running' = run
         /\ UNCHANGED <<result_label, entry_state, raised, ledgerVars>>
    ELSE /\ running' = FALSE
         /\ LET elapsed == ResultElapsed(st)
            IN  IF ZeroDivision(entry, text_to_type, elapsed)
                THEN /\ raised' = raised + 1
                     /\ UNCHANGED <<result_label, entry_state, ledgerVars>>
                ELSE LET accuracy == Accuracy(entry, text_to_type)
                         wpm == Wpm(entry, elapsed)
                     IN  /\ result_label' =
                               Some(Row(Format2(Rat(elapsed, 1)), Format2(wpm),
                                        Format2(accuracy)))
                         /\ entry_state' = "disabled"
                         /\ save_score(Rat(elapsed, 1), wpm, accuracy)
                         /\ UNCHANGED raised

\* update_timer() with self.running = run, self.start_time = st, while
\* `others` further callbacks stay scheduled
update_timer(run, st, others) ==
    IF run /\ TimerFinishes(TimerElapsed(st))
    THEN /\ calculate_results(run, st)
         /\ pending' = others
    ELSE /\ running' = run
         /\ pending' = others + (IF run THEN 1 ELSE 0)
         /\ UNCHANGED <<result_label, entry_state, raised, ledgerVars>>

\* start_timer()
start_timer ==
    IF ~running
    THEN /\ start_time' = Some(now)
         /\ update_timer(TRUE, Some(now), pending)
    ELSE UNCHANGED <<start_time, running, pending, result_label, entry_state,
                     raised, ledgerVars>>

\* a start condition that forgets whether the trial has started before
StartsWhenVisible == RStrip(LStrip(entry)) # <<>>

\* self.start_time is None and self.entry.get("1.0", "end-1c").strip()
ShouldStart == start_time = None /\ Strip(entry) # <<>>

\* <KeyRelease>: check_typing(event)
check_typing ==
    /\ current_frame = "TypingFrame"
    /\ UNCHANGED <<menuVars, gameVars>>
    /\ IF ShouldStart
       THEN start_timer
       ELSE UNCHANGED <<start_time, running, pending, result_label,
                        entry_state, raised, ledgerVars>>
    /\ event' = "check_typing"
    /\ UNCHANGED <<mode, text_to_type, entry, clockVars>>

\* the after() callback fires: update_timer()
Tick ==
    /\ current_frame = "TypingFrame"
    /\ UNCHANGED <<menuVars, gameVars>>
    /\ pending > 0
    /\ update_timer(running, start_time, pending - 1)
    /\ event' = "update_timer"
    /\ UNCHANGED <<mode, text_to_type, start_time, entry, clockVars>>

\* <Return>: calculate_results(event), then the Text class binding inserts
\* a newline unless the widget is disabled by then
Return ==
    /\ current_frame = "TypingFrame"
    /\ UNCHANGED <<menuVars, gameVars>>
    /\ \/ entry_state = "disabled"
       \/ running /\ ~ZeroDivision(entry, text_to_type, ResultElapsed(start_time))
       \/ Len(entry) < MaxTyped
    /\ calculate_results(running, start_time)
    /\ entry' = IF entry_state' = "normal" THEN Append(entry, "\n") ELSE entry
    /\ event' = "return"
    /\ UNCHANGED <<mode, text_to_type, start_time, pending, clockVars>>

\* a key press inserts a character into the entry widget
InsertChar ==
    /\ current_frame = "TypingFrame"
    /\ UNCHANGED <<menuVars, gameVars>>
    /\ entry_state = "normal"
    /\ Len(entry) < MaxTyped
    /\ \E c \in KeyChars : entry' = Append(entry, c)
    /\ event' = "edit"
    /\ UNCHANGED <<mode, text_to_type, start_time, running, entry_state,
                   pending, result_label, raised, clockVars, ledgerVars>>

\* BackSpace deletes the last character of the entry widget
Backspace ==
    /\ current_frame = "TypingFrame"
    /\ UNCHANGED <<menuVars, gameVars>>
    /\ entry_state = "normal"
    /\ entry # <<>>
    /\ entry' = SubSeq(entry, 1, Len(entry) - 1)
    /\ event' = "edit"
    /\ UNCHANGED <<mode, text_to_type, start_time, running, entry_state,
                   pending, result_label, raised, clockVars, ledgerVars>>

-----------------------------------------------------------------------------
(* The main menu: TypingApp.get_high_score, MainMenuFrame *)

\* a reader that returns the lowest WPM of the ledger
lowest_score ==
    IF ~scores.exists \/ scores.rows = <<>> THEN 0
    ELSE CHOOSE w \in {WpmKey(scores.rows[i]) : i \in 1..Len(scores.rows)} :
             \A i \in 1..Len(scores.rows) : w <= WpmKey(scores.rows[i])

\* get_high_score(): max(wpms) if wpms else 0, and 0 without a file; in
\* hundredths
get_high_score ==
    IF ~scores.exists \/ scores.rows = <<>> THEN 0
    ELSE CHOOSE w \in {WpmKey(scores.rows[i]) : i \in 1..Len(scores.rows)} :
             \A i \in 1..Len(scores.rows) : w >= WpmKey(scores.rows[i])

\* the fields of the trial, the latest handler apart
trialFields == <<mode, text_to_type, start_time, running, entry, entry_state,
                 result_label, raised>>

\* a switch to the menu that leaves the callbacks of the old frame pending
show_menu_keeping_callbacks ==
    /\ current_frame' = "MainMenuFrame"
    /\ high_score' = get_high_score
    /\ UNCHANGED <<pending, spawn_pending, motion_pending>>

\* show_main_menu(): switch_frame destroys the frame shown, and with it the
\* Tcl commands of its pending after() callbacks, then builds the menu,
\* which reads the high score
show_main_menu ==
    /\ current_frame' = "MainMenuFrame"
    /\ high_score' = get_high_score
    /\ pending' = 0
    /\ spawn_pending' = 0
    /\ motion_pending' = 0

-----------------------------------------------------------------------------
(* The word bubble game: BubbleFrame *)

\* a bubble: its word and its height; where it is drawn across the canvas
\* (x) and the canvas items it is drawn as are rendering
Bubble(w, y) == [word |-> w, y |-> y]

\* list(set(self.master.words)), the order of a set being of no account to
\* random.choice
Vocabulary == {words[i] : i \in 1..Len(words)}

\* a callback that never returns early
NeverStopped(flag) == FALSE

\* if not self.running: return, at the top of spawn_bubble and update_bubbles
Stopped(flag) == ~flag

\* a strike that counts double
TwoStrikes(s) == s + 2

\* self.strikes += 1
StrikesAfterHit(s) == s + 1

\* a game that continues whatever the strikes
NeverOut(s) == FALSE

\* if self.strikes >= 3
IsOut(s) == s >= MAX_STRIKES

\* a penalty that removes only the front bubble
ClearFront(bs) == IF bs = <<>> THEN <<>> ELSE Tail(bs)

\* clear_all_bubbles(): self.bubbles.clear()
clear_all_bubbles(bs) == <<>>

\* a bubble that does not fall
Stays(b, spd) == b

\* bubble["y"] += self.speed
Moved(b, spd) == [b EXCEPT !.y = @ + spd]

\* every bubble moved, in the order of the list
RECURSIVE MovedAll(_, _)
MovedAll(bs, spd) ==
    IF bs = <<>> THEN <<>>
    ELSE <<Moved(Head(bs), spd)>> \o MovedAll(Tail(bs), spd)

\* some bubble has y >= 600 once moved
ReachesFloor(bs, spd) == \E i \in 1..Len(bs) : bs[i].y + spd >= FLOOR_Y

\* update_bubbles() on the fields g it reads and writes.  The loop over
\* self.bubbles ends with the first bubble at the floor, because
\* clear_all_bubbles empties the list that is iterated; the call is
\* rescheduled whenever it passed the check of self.running.
update_bubbles(g, spd) ==
    IF Stopped(g.running) THEN g
    ELSE IF ReachesFloor(g.bubbles, spd)
    THEN LET s == StrikesAfterHit(g.strikes)
         IN  [running |-> ~IsOut(s),
              strikes |-> s,
              bubbles |-> clear_all_bubbles(g.bubbles),
              over |-> IF IsOut(s) THEN g.over + 1 ELSE g.over,
              motion |-> g.motion + 1]
    ELSE [running |-> g.running,
          strikes |-> g.strikes,
          bubbles |-> MovedAll(g.bubbles, spd),
          over |-> g.over,
          motion |-> g.motion + 1]

\* the pending update_bubbles callback fires, if one is pending
FireTick(g, spd) ==
    IF g.motion = 0 THEN g
    ELSE update_bubbles([running |-> g.running, strikes |-> g.strikes,
                         bubbles |-> g.bubbles, over |-> g.over,
                         motion |-> g.motion - 1], spd)

\* the number of firings of a running game, n at most, before the
\* first one in which a bubble reaches the floor: a bubble at y stays above
\* the floor for the q firings with y + q * spd <= FLOOR_Y - 1
QuietTicks(bs, spd, n) ==
    LET quiet == {(FLOOR_Y - 1 - bs[i].y) \div spd : i \in 1..Len(bs)} \cup {n}
    IN  CHOOSE q \in quiet : \A r \in quiet : q <= r

\* q firings of a running game in none of which a bubble reaches the floor:
\* each moves every bubble by spd and schedules the next
Glide(g, spd, q) ==
    [running |-> g.running,
     strikes |-> g.strikes,
     bubbles |-> MovedAll(g.bubbles, q * spd),
     over |-> g.over,
     motion |-> g.motion]

\* the first of n firings of a pending update_bubbles callback: the board
\* they leave and their number, those before a bubble reaches the floor
\* being taken together
FirstTicks(g, spd, n) ==
    LET q == QuietTicks(g.bubbles, spd, n)
    IN  IF ~Stopped(g.running) /\ q > 0
        THEN [board |-> Glide(g, spd, q), fired |-> q]
        ELSE [board |-> FireTick(g, spd), fired |-> 1]

\* n successive firings of the pending update_bubbles callback, as long as
\* one is pending
RECURSIVE RunTicks(_, _, _)
RunTicks(g, spd, n) ==
    IF n = 0 \/ g.motion = 0 THEN g
    ELSE CHOOSE r \in {RunTicks(h.board, spd, n - h.fired) :
                           h \in {FirstTicks(g, spd, n)}} : TRUE

\* the fields update_bubbles works on
Board ==
    [running |-> game_running, strikes |-> strikes, bubbles |-> bubbles,
     over |-> game_over, motion |-> motion_pending]

\* a get_next_word that leaves the word in the pool
PoolKeeps(pool, word) == pool

\* self.words_pool.remove(word)
PoolAfter(pool, word) == pool \ {word}

\* the pool get_next_word draws from: refilled when exhausted
DrawPool(pool) == IF pool = {} THEN Vocabulary ELSE pool

\* the words used before the draw: forgotten with the refill
DrawUsed(pool, used) == IF pool = {} THEN {} ELSE used

\* get_next_word() returning word, on a pool and the used words
get_next_word(pool, used, word) ==
    /\ word \in DrawPool(pool)
    /\ words_pool' = PoolAfter(DrawPool(pool), word)
    /\ used_words' = DrawUsed(pool, used) \cup {word}

\* a speed rule without the cap
SpeedNoCap(s, v) == IF s % SPEED_EVERY = 0 THEN v + 1 ELSE v

\* if self.score % 5 == 0 and self.speed < self.max_speed: self.speed += 1
SpeedAfter(s, v) ==
    IF s % SPEED_EVERY = 0 /\ v < MAX_SPEED THEN v + 1 ELSE v

\* an interval rule without the floor
IntervalNoFloor(s, d) ==
    IF s % INTERVAL_EVERY = 0 THEN d - INTERVAL_STEP ELSE d

\* if self.score % 3 == 0 and self.spawn_interval > self.min_spawn_interval:
\* 100 less, and no less than the minimum
IntervalAfter(s, d) ==
    IF s % INTERVAL_EVERY = 0 /\ d > MIN_SPAWN_INTERVAL
    THEN Max(d - INTERVAL_STEP, MIN_SPAWN_INTERVAL)
    ELSE d

\* the indices of the bubbles that carry the word typed
Matches(bs, typed) == {i \in 1..Len(bs) : bs[i].word = typed}

\* the last bubble that carries the word
LastMatch(bs, typed) ==
    CHOOSE i \in Matches(bs, typed) : \A j \in Matches(bs, typed) : i >= j

\* for bubble in self.bubbles: if bubble["word"] == typed: ... break
FirstMatch(bs, typed) ==
    CHOOSE i \in Matches(bs, typed) : \A j \in Matches(bs, typed) : i <= j

\* self.bubbles.remove(bubble), the bubble being the i-th
RemoveAt(bs, i) == SubSeq(bs, 1, i - 1) \o SubSeq(bs, i + 1, Len(bs))

\* BubbleFrame(master) through the menu button "Word Bubble Mode":
\* switch_frame destroys the menu and runs __init__, which ends with
\* spawn_bubble() and update_bubbles().  With no word to choose from,
\* random.choice raises IndexError inside get_next_word and the frame is
\* never shown.
StartArcade ==
    /\ current_frame = "MainMenuFrame"
    /\ strikes' = 0
    /\ score' = 0
    /\ speed' = INITIAL_SPEED
    /\ spawn_interval' = INITIAL_SPAWN_INTERVAL
    /\ game_entry' = <<>>
    /\ fine_ticks' = 0
    /\ IF Vocabulary = {}
       THEN /\ index_errors' = index_errors + 1
            /\ current_frame' = "destroyed"
            /\ game_running' = TRUE
            /\ bubbles' = <<>>
            /\ game_over' = 0
            /\ words_pool' = {}
            /\ used_words' = {}
            /\ spawn_pending' = 0
            /\ spawn_delay' = 0
            /\ motion_pending' = 0
       ELSE \E word \in Vocabulary :
                LET g == update_bubbles(
                             [running |-> TRUE, strikes |-> 0,
                              bubbles |-> <<Bubble(word, SPAWN_Y)>>,
                              over |-> 0, motion |-> 0],
                             INITIAL_SPEED)
                IN  /\ get_next_word(Vocabulary, {}, word)
                    /\ game_running' = g.running
                    /\ bubbles' = g.bubbles
                    /\ game_over' = g.over
                    /\ motion_pending' = g.motion
                    /\ spawn_pending' = 1
                    /\ spawn_delay' = INITIAL_SPAWN_INTERVAL
                    /\ index_errors' = index_errors
                    /\ current_frame' = "BubbleFrame"
    /\ event' = "BubbleFrame"
    /\ UNCHANGED <<trialFields, pending, clockVars, ledgerVars, high_score,
                   resources, limits>>

\* a rescheduling that keeps the delay of the spawn before
DelayKept(interval, delay) == delay

\* the delay the next spawn is scheduled with: self.spawn_interval as it
\* is when after() is called
ScheduledDelay(interval, delay) == interval

\* the callback of after(self.spawn_interval, self.spawn_bubble)
spawn_bubble ==
    /\ current_frame = "BubbleFrame"
    /\ spawn_pending > 0
    /\ IF Stopped(game_running)
       THEN /\ spawn_pending' = spawn_pending - 1
            /\ UNCHANGED <<bubbles, words_pool, used_words, spawn_delay>>
       ELSE /\ Len(bubbles) < limits.bubbles
            /\ \E word \in DrawPool(words_pool) :
                   /\ get_next_word(words_pool, used_words, word)
                   /\ bubbles' = Append(bubbles, Bubble(word, SPAWN_Y))
            /\ spawn_pending' = spawn_pending
            /\ spawn_delay' = ScheduledDelay(spawn_interval, spawn_delay)
    /\ event' = "spawn_bubble"
    /\ UNCHANGED <<game_running, strikes, score, speed, spawn_interval,
                   game_entry, motion_pending, game_over, index_errors,
                   fine_ticks, limits>>
    /\ UNCHANGED <<trialFields, pending, clockVars, ledgerVars, menuVars>>

\* the callback of after(50, self.update_bubbles), fired once or
\* TicksPerStep times in a row
MotionTicks ==
    /\ current_frame = "BubbleFrame"
    /\ motion_pending > 0
    /\ \E n \in {1, TicksPerStep} :
           \E g \in {RunTicks(Board, speed, n)} :
               /\ n = 1 => fine_ticks < limits.fine
               /\ fine_ticks' = IF n = 1 THEN fine_ticks + 1 ELSE fine_ticks
               /\ game_running' = g.running
               /\ strikes' = g.strikes
               /\ bubbles' = g.bubbles
               /\ game_over' = g.over
               /\ motion_pending' = g.motion
    /\ event' = "update_bubbles"
    /\ UNCHANGED <<score, speed, spawn_interval, words_pool, used_words,
                   game_entry, spawn_pending, spawn_delay, index_errors,
                   limits>>
    /\ UNCHANGED <<trialFields, pending, clockVars, ledgerVars, menuVars>>

\* a key press inserts a character into the entry of the game
GameInsertChar ==
    /\ current_frame = "BubbleFrame"
    /\ Len(game_entry) < limits.typed
    /\ \E c \in GameKeys : game_entry' = Append(game_entry, c)
    /\ event' = "game_key"
    /\ UNCHANGED <<game_running, strikes, bubbles, score, speed,
                   spawn_interval, words_pool, used_words, spawn_pending,
                   spawn_delay, motion_pending, game_over, index_errors,
                   fine_ticks, limits>>
    /\ UNCHANGED <<trialFields, pending, clockVars, ledgerVars, menuVars>>

\* BackSpace in the entry of the game
GameBackspace ==
    /\ current_frame = "BubbleFrame"
    /\ game_entry # <<>>
    /\ game_entry' = SubSeq(game_entry, 1, Len(game_entry) - 1)
    /\ event' = "game_key"
    /\ UNCHANGED <<game_running, strikes, bubbles, score, speed,
                   spawn_interval, words_pool, used_words, spawn_pending,
                   spawn_delay, motion_pending, game_over, index_errors,
                   fine_ticks, limits>>
    /\ UNCHANGED <<trialFields, pending, clockVars, ledgerVars, menuVars>>

\* check_word(event), bound to <KeyRelease>; it does not read self.running
check_word ==
    /\ current_frame = "BubbleFrame"
    /\ LET typed == Strip(game_entry)
       IN  IF typed = <<>> \/ Matches(bubbles, typed) = {}
           THEN UNCHANGED <<bubbles, score, speed, spawn_interval, game_entry>>
           ELSE /\ score < limits.score
                /\ bubbles' = RemoveAt(bubbles, FirstMatch(bubbles, typed))
                /\ score' = score + 1
                /\ speed' = SpeedAfter(score + 1, speed)
                /\ spawn_interval' = IntervalAfter(score + 1, spawn_interval)
                /\ game_entry' = <<>>
    /\ event' = "check_word"
    /\ UNCHANGED <<game_running, strikes, words_pool, used_words,
                   spawn_pending, spawn_delay, motion_pending, game_over,
                   index_errors, fine_ticks,
                   limits>>
    /\ UNCHANGED <<trialFields, pending, clockVars, ledgerVars, menuVars>>

\* clear_entry(event), bound to <Return>
clear_entry ==
    /\ current_frame = "BubbleFrame"
    /\ game_entry' = <<>>
    /\ event' = "clear_entry"
    /\ UNCHANGED <<game_running, strikes, bubbles, score, speed,
                   spawn_interval, words_pool, used_words, spawn_pending,
                   spawn_delay, motion_pending, game_over, index_errors,
                   fine_ticks, limits>>
    /\ UNCHANGED <<trialFields, pending, clockVars, ledgerVars, menuVars>>

\* stop_game(), the button "Back to Menu" of the game
stop_game ==
    /\ current_frame = "BubbleFrame"
    /\ game_running' = FALSE
    /\ show_main_menu
    /\ event' = "stop_game"
    /\ UNCHANGED <<strikes, bubbles, score, speed, spawn_interval,
                   words_pool, used_words, game_entry, spawn_delay,
                   game_over, index_errors, fine_ticks, limits>>
    /\ UNCHANGED <<trialFields, clockVars, ledgerVars, resources>>

\* the elements of a list
Elements(list) == {list[i] : i \in 1..Len(list)}

\* the passages TypingFrame.__init__ may take: the text given, a long text
\* in countdown mode, or random.choice(master.sentences or ["Default text."])
PassageChoices(m, text, short, long) ==
    IF text # None /\ text[1] # <<>> THEN {text[1]}
    ELSE IF m = "countdown" /\ long # <<>> THEN Elements(long)
    ELSE Elements(IF short # <<>> THEN short ELSE <<DEFAULT_TEXT>>)

\* TypingFrame(master, mode, text) through the menu: a mode button, or
\* "Start with Selected Text" with "Random" or one of the sentences
StartTrial ==
    /\ current_frame = "MainMenuFrame"
    /\ \E m \in Modes, text \in {None} \cup {Some(t) : t \in Elements(sentences)} :
           /\ m = "countdown" => text = None
           /\ mode' = m
           /\ text_to_type' \in PassageChoices(m, text, sentences, long_texts)
    /\ start_time' = None
    /\ running' = FALSE
    /\ entry' = <<>>
    /\ entry_state' = "normal"
    /\ pending' = 0
    /\ result_label' = None
    /\ event' = "TypingFrame"
    /\ current_frame' = "TypingFrame"
    /\ UNCHANGED <<raised, clockVars, ledgerVars, high_score, resources,
                   gameVars>>

\* the button "Back to Menu" of the trial: master.show_main_menu()
BackToMenu ==
    /\ current_frame = "TypingFrame"
    /\ show_main_menu
    /\ event' = "show_main_menu"
    /\ UNCHANGED <<trialFields, clockVars, ledgerVars, resources>>
    /\ UNCHANGED <<game_running, strikes, bubbles, score, speed,
                   spawn_interval, words_pool, used_words, game_entry,
                   spawn_delay, game_over, index_errors, fine_ticks, limits>>

-----------------------------------------------------------------------------
(* The clock: time.time() *)

\* the latest clock reading the model follows the trial to
Horizon ==
    IF start_time = None
    THEN ClockBase + MaxIdleSteps * ClockStep
    ELSE start_time[1] + MaxElapsedSteps * ClockStep

\* time passes
Advance ==
    /\ now + ClockStep <= Horizon
    /\ now' = now + ClockStep
    /\ UNCHANGED <<backs, trialVars, ledgerVars, menuVars, gameVars>>

\* the system clock is set back (time.time() is not monotonic)
StepBack ==
    /\ backs < MaxBackSteps
    /\ now' = now - ClockStep
    /\ backs' = backs + 1
    /\ UNCHANGED <<trialVars, ledgerVars, menuVars, gameVars>>

-----------------------------------------------------------------------------
(* Specification of one trial *)

AbsentLedger == [exists |-> FALSE, rows |-> <<>>]

\* a ledger earlier trials left: five rows, WPM 2.00, 0.60, 0.60, 0.30, 0.15
SeedLedger ==
    [exists |-> TRUE,
     rows |-> << Row(Format2(Rat(30, 1)), Format2(Rat(2, 1)), Format2(Rat(100, 1))),
                 Row(Format2(Rat(20, 1)), Format2(Rat(3, 5)), Format2(Rat(100, 1))),
                 Row(Format2(Rat(40, 1)), Format2(Rat(3, 5)), Format2(Rat(50, 1))),
                 Row(Format2(Rat(80, 1)), Format2(Rat(3, 10)), Format2(Rat(100, 1))),
                 Row(Format2(Rat(80, 1)), Format2(Rat(3, 20)), Format2(Rat(0, 1))) >>]

\* no game has been started
NoGame ==
    /\ game_running = FALSE
    /\ strikes = 0
    /\ bubbles = <<>>
    /\ score = 0
    /\ speed = INITIAL_SPEED
    /\ spawn_interval = INITIAL_SPAWN_INTERVAL
    /\ words_pool = {}
    /\ used_words = {}
    /\ game_entry = <<>>
    /\ spawn_pending = 0
    /\ spawn_delay = 0
    /\ motion_pending = 0
    /\ game_over = 0
    /\ index_errors = 0
    /\ fine_ticks = 0

LedgerInit ==
    /\ new_entry = None
    /\ evicted = <<>>
    /\ saves = 0
    /\ increasing_run = <<>>
    /\ max_recorded = 0

\* the state TypingFrame.__init__ leaves
Init ==
    /\ mode \in Modes
    /\ text_to_type \in References
    /\ start_time = None
    /\ running = FALSE
    /\ entry = <<>>
    /\ entry_state = "normal"
    /\ pending = 0
    /\ result_label = None
    /\ raised = 0
    /\ event = "init"
    /\ now = ClockBase
    /\ backs = 0
    /\ scores \in {AbsentLedger, SeedLedger}
    /\ LedgerInit
    /\ high_score = get_high_score
    /\ current_frame = "TypingFrame"
    /\ sentences = <<text_to_type>>
    /\ long_texts = <<>>
    /\ words = <<>>
    /\ NoGame
    /\ limits = ArcadeLimits

Next ==
    \/ InsertChar
    \/ Backspace
    \/ check_typing
    \/ Return
    \/ Tick
    \/ Advance
    \/ StepBack

Spec == Init /\ [][Next]_vars

-----------------------------------------------------------------------------
(* Specification of the ledger: save_score called again and again, each *)
(* call by one finished trial                                            *)

\* scores.csv exists and holds no row
EmptyLedger == [exists |-> TRUE, rows |-> <<>>]

\* the (time, wpm, accuracy) arguments of a call: wpm 0, 0.5, 1, ... after
\* 10 s at 100 %, and wpm 1 once more after 20 s at 50 %
ScoreInputs ==
    {<<Rat(10, 1), Rat(k, 2), Rat(100, 1)>> : k \in 0..MaxWpmHalves}
        \cup {<<Rat(20, 1), Rat(1, 1), Rat(50, 1)>>}

InitLedger ==
    /\ mode = "stopwatch"
    /\ text_to_type = <<>>
    /\ start_time = None
    /\ running = FALSE
    /\ entry = <<>>
    /\ entry_state = "normal"
    /\ pending = 0
    /\ result_label = None
    /\ raised = 0
    /\ event = "init"
    /\ now = ClockBase
    /\ backs = 0
    /\ scores \in {AbsentLedger, EmptyLedger}
    /\ LedgerInit
    /\ high_score = get_high_score
    /\ current_frame = "MainMenuFrame"
    /\ sentences = <<>>
    /\ long_texts = <<>>
    /\ words = <<>>
    /\ NoGame
    /\ limits = ArcadeLimits

\* one trial is started from the menu, finishes and records its score
RecordScore ==
    /\ saves < MaxSaves
    /\ current_frame = "MainMenuFrame"
    /\ current_frame' = "TypingFrame"
    /\ \E args \in ScoreInputs : save_score(args[1], args[2], args[3])
    /\ UNCHANGED <<trialVars, clockVars, high_score, resources, gameVars>>

NextLedger == RecordScore \/ BackToMenu

SpecLedger == InitLedger /\ [][NextLedger]_vars

-----------------------------------------------------------------------------
(* Specification of a trial that may be left: the trial of Spec with the *)
(* button "Back to Menu"                                                  *)

NextLeave == Next \/ BackToMenu

SpecLeave == Init /\ [][NextLeave]_vars

-----------------------------------------------------------------------------
(* Specification of the game: games started from the menu and left again *)
(* and, in SpecStart, the sessions the menu starts                       *)

\* the state the main menu is first shown in
InitMenu ==
    /\ mode = "stopwatch"
    /\ text_to_type = <<>>
    /\ start_time = None
    /\ running = FALSE
    /\ entry = <<>>
    /\ entry_state = "normal"
    /\ pending = 0
    /\ result_label = None
    /\ raised = 0
    /\ event = "init"
    /\ now = ClockBase
    /\ backs = 0
    /\ scores = AbsentLedger
    /\ LedgerInit
    /\ high_score = get_high_score
    /\ current_frame = "MainMenuFrame"
    /\ NoGame

InitArcade ==
    /\ InitMenu
    /\ sentences = <<>>
    /\ long_texts = <<>>
    /\ words \in Vocabularies
    /\ limits = ArcadeLimits

NextArcade ==
    \/ StartArcade
    \/ spawn_bubble
    \/ MotionTicks
    \/ GameInsertChar
    \/ GameBackspace
    \/ check_word
    \/ clear_entry
    \/ stop_game

SpecArcade == InitArcade /\ [][NextArcade]_vars

\* sessions started from the menu, over the lists the files may hold
InitStart ==
    /\ InitMenu
    /\ sentences \in PassageLists
    /\ long_texts \in LongLists
    /\ words \in Vocabularies
    /\ limits = ArcadeLimits

NextStart ==
    \/ StartTrial
    \/ BackToMenu
    \/ StartArcade
    \/ stop_game

SpecStart == InitStart /\ [][NextStart]_vars

\* the game with one word, followed over many matches
InitDifficulty ==
    /\ InitMenu
    /\ sentences = <<>>
    /\ long_texts = <<>>
    /\ words = <<WordA>>
    /\ limits = DifficultyLimits

SpecDifficulty == InitDifficulty /\ [][NextArcade]_vars

\* the game of a player who never matches a word and stays in the game:
\* whatever is typed, check_word finds no bubble that carries it
MissedWord == check_word /\ score' = score

InitUnmatched ==
    /\ InitMenu
    /\ sentences = <<>>
    /\ long_texts = <<>>
    /\ words \in Vocabularies \ {<<>>}
    /\ limits = UnmatchedLimits

NextUnmatched ==
    \/ StartArcade
    \/ spawn_bubble
    \/ MotionTicks
    \/ GameInsertChar
    \/ MissedWord
    \/ clear_entry

\* the event loop of Tk runs every after() callback that is due: a pending
\* spawn_bubble or update_bubbles is not put off for ever
FairTimers == WF_vars(spawn_bubble) /\ WF_vars(MotionTicks)

SpecUnmatched == InitUnmatched /\ [][NextUnmatched]_vars /\ FairTimers

-----------------------------------------------------------------------------
(* Properties of the typing trial, checked under Spec *)

\* the hundredths h are the value n / d (d > 0) rounded to two decimals
IsRounded(h, n, d) == 2 * Abs(h * d - 100 * n) <= d

\* the trimmed text is non-empty: some character is not whitespace
HasVisibleChar(s) == \E i \in 1..Len(s) : s[i] \notin Whitespace

NotStarted == start_time = None
Finished == start_time # None /\ ~running

\* C1: finishing a Running trial never raises a division error: the finished
\* trial shows an accuracy within [0, 100] (0 for an empty reference) and a
\* wpm, and has handed one record to the ledger.
C1_FinishNeverFails ==
    /\ raised = 0
    /\ Finished =>
         /\ result_label # None
         /\ saves = 1
         /\ ParseFloat(result_label[1].Accuracy) \in 0..10000
         /\ text_to_type = <<>> => ParseFloat(result_label[1].Accuracy) = 0

\* C2: for a non-empty reference the accuracy reported at finish is
\* 100 * correctCount / len(reference), to two decimals.
C2_AccuracyOverReference ==
    (result_label # None /\ text_to_type # <<>>) =>
        IsRounded(ParseFloat(result_label[1].Accuracy),
                  100 * CorrectChars(entry, text_to_type), Len(text_to_type))

\* C3: the wpm a finish reports is (len(typed) / 5) / minutes, to two
\* decimals, with minutes = elapsed / 60 for elapsed > 0 and 1 otherwise; the
\* whole typed length counts, and whenever the accuracy quotient is defined
\* the finish reports a result whatever the elapsed time is.
C3_WpmFormula ==
    [][(running /\ ~running') =>
          LET elapsed == now - start_time[1]
              typed == Len(entry)
          IN  /\ (entry # <<>> \/ text_to_type = <<>>) => result_label' # None
              /\ result_label' # None =>
                    LET h == ParseFloat(result_label'[1].WPM)
                    IN  IF elapsed > 0
                        THEN IsRounded(h, 60 * typed, 5 * elapsed)
                        ELSE IsRounded(h, typed, 5)]_vars

\* C3 witness: a result after the clock was set back (elapsed < 0), with more
\* characters typed than the reference holds
C3_Witness ==
    /\ result_label # None
    /\ ParseFloat(result_label[1].Time) < 0
    /\ Len(entry) > Len(text_to_type)
    /\ ParseFloat(result_label[1].WPM) = 20 * Len(entry)

\* C4: save_score runs at most once in a trial, and once the trial has
\* finished no submit, tick or keystroke sets running again, restarts the
\* timer or changes the ledger.
C4_FinishedIsTerminal ==
    [][/\ saves' <= 1
       /\ Finished =>
            /\ ~running'
            /\ start_time' = start_time
            /\ pending' <= pending
            /\ scores' = scores
            /\ saves' = saves
            /\ result_label' = result_label]_vars

\* C4 witness: a stopwatch trial that finished with a record, whose last
\* pending tick has fired since, and that received a keystroke after that
C4_Witness ==
    /\ mode = "stopwatch"
    /\ Finished
    /\ saves = 1
    /\ pending = 0
    /\ event = "check_typing"

\* C5: a countdown trial that the tick loop finishes is finished at a tick
\* that observes elapsed >= 60 s, and that finish produces exactly one score
\* record, whatever was typed or deleted before.
C5_CountdownAutoFinishRecordsOnce ==
    [][(mode = "countdown" /\ running /\ ~running' /\ event' = "update_timer") =>
          /\ now - start_time[1] >= 60
          /\ saves' = 1
          /\ result_label' # None]_vars

\* C6: in stopwatch mode only a submit ends a Running trial: a tick, whatever
\* elapsed time it observes, leaves the trial Running, writes no record and
\* schedules itself again.
C6_StopwatchEndsOnSubmitOnly ==
    [][(mode = "stopwatch" /\ running) =>
          /\ pending = 1
          /\ ~running' => event' = "return"
          /\ event' = "update_timer" =>
                /\ running'
                /\ pending' = 1
                /\ scores' = scores
                /\ saves' = saves
                /\ result_label' = result_label]_vars

\* C6 witness: a stopwatch trial still Running after a tick, more than the
\* countdown limit after its start
C6_Witness ==
    /\ mode = "stopwatch"
    /\ running
    /\ event = "update_timer"
    /\ now - start_time[1] > 60
    /\ saves = 0

\* C7: the trial starts at the first keystroke event that finds a non-empty
\* trimmed entry text and at no other event; until then start_time is unset,
\* running is false and no tick is scheduled; running implies that start_time
\* is set and the trial has not finished; start_time is assigned only once.
C7_StartsOnFirstVisibleKeystroke ==
    /\ [](/\ NotStarted => (~running /\ pending = 0)
          /\ running => (start_time # None /\ saves = 0 /\ raised = 0
                            /\ result_label = None)
          /\ (event = "check_typing" /\ HasVisibleChar(entry)) => ~NotStarted)
    /\ [][/\ (NotStarted /\ ~NotStarted') =>
                /\ event' = "check_typing"
                /\ HasVisibleChar(entry)
                /\ entry' = entry
                /\ start_time' = Some(now)
                /\ running'
          /\ ~NotStarted => start_time' = start_time]_vars

\* C7 witness: a keystroke event found only whitespace and left the trial
\* NotStarted
C7_Witness ==
    /\ NotStarted
    /\ event = "check_typing"
    /\ Len(entry) = 2
    /\ ~HasVisibleChar(entry)

-----------------------------------------------------------------------------
(* Properties of the ledger, checked under SpecLedger *)

\* a step that is a save_score call
SaveStep == saves' = saves + 1

Count(s, x) == Cardinality({i \in 1..Len(s) : s[i] = x})
Range(s) == {s[i] : i \in 1..Len(s)}

\* s and t hold the same rows, each as often
SameRows(s, t) ==
    \A x \in Range(s) \cup Range(t) : Count(s, x) = Count(t, x)

\* the rows of s whose WPM is w hundredths, in their order in s
WithWpm(s, w) == SelectSeq(s, LAMBDA r : WpmKey(r) = w)

IsPrefix(a, b) == Len(a) <= Len(b) /\ SubSeq(b, 1, Len(a)) = a

\* C8: the persisted ledger holds at most 5 rows, in non-increasing order of
\* WPM, after any sequence of save_score calls from an absent or empty ledger.
C8_LedgerBoundedAndSorted ==
    /\ Len(scores.rows) <= 5
    /\ \A i \in 1..(Len(scores.rows) - 1) :
           WpmKey(scores.rows[i]) >= WpmKey(scores.rows[i + 1])

\* C8 witness: six calls were made and the ledger holds five rows of which
\* the first has a higher WPM than the last
C8_Witness ==
    /\ saves = 6
    /\ Len(scores.rows) = 5
    /\ WpmKey(scores.rows[1]) > WpmKey(scores.rows[5])

\* C9: a save_score call leaves the 5 highest-WPM rows of the previous ledger
\* plus the new row; a new row below all 5 rows of a full ledger leaves the
\* ledger as it was, one above all of them evicts the last (lowest) row, and
\* six calls with strictly increasing WPM leave the five latest rows, the
\* first one recorded being the one evicted.
C9_KeepsTheFiveHighest ==
    [][SaveStep =>
          LET old == scores.rows
              new == new_entry'[1]
              kept == scores'.rows
              run == increasing_run'
          IN  /\ Len(kept) = Min(5, Len(old) + 1)
              /\ SameRows(kept \o evicted', Append(old, new))
              /\ \A i \in 1..Len(kept), j \in 1..Len(evicted') :
                     WpmKey(kept[i]) >= WpmKey(evicted'[j])
              /\ (Len(old) = 5 /\ \A i \in 1..5 : WpmKey(new) < WpmKey(old[i]))
                     => kept = old
              /\ (Len(old) = 5 /\ \A i \in 1..5 : WpmKey(new) > WpmKey(old[i]))
                     => (kept = <<new>> \o SubSeq(old, 1, 4) /\ evicted' = <<old[5]>>)
              /\ (saves' = 6 /\ Len(run) = 6)
                     => /\ Len(kept) = 5
                        /\ \A i \in 1..5 : kept[i] = run[7 - i]
                        /\ evicted' = <<run[1]>>]_vars

\* C9 witness: six rows with strictly increasing WPM were recorded and the
\* first of them was evicted
C9_Witness ==
    /\ saves = 6
    /\ Len(increasing_run) = 6
    /\ evicted = <<increasing_run[1]>>
    /\ Len(scores.rows) = 5

\* C10: rows of equal WPM stay in the order they were recorded in: a call
\* keeps the order of the previous rows of each WPM and puts the new row
\* behind them, so a new row that ties the last row of a full ledger is the
\* row dropped.
C10_TiesKeepInsertionOrder ==
    [][SaveStep =>
          LET old == scores.rows
              new == new_entry'[1]
              kept == scores'.rows
          IN  /\ \A w \in {WpmKey(r) : r \in Range(Append(old, new))} :
                     IsPrefix(WithWpm(kept, w), WithWpm(Append(old, new), w))
              /\ (Len(old) = 5 /\ WpmKey(new) = WpmKey(old[5]))
                     => (kept = old /\ evicted' = <<new>>)]_vars

\* C10 witness: a full ledger whose last row ties the WPM of the new row,
\* which differs from it and was dropped
C10_Witness ==
    /\ Len(scores.rows) = 5
    /\ new_entry # None
    /\ evicted = new_entry
    /\ WpmKey(new_entry[1]) = WpmKey(scores.rows[5])
    /\ new_entry[1] # scores.rows[5]

-----------------------------------------------------------------------------
(* Properties of the high score, checked under SpecLedger *)

\* C11: the high score the main menu reads is 0 when the ledger is absent
\* or has no rows; after any sequence of save_score calls it is the highest
\* WPM ever recorded, truncation to five rows or not, and that is the WPM of
\* the first row of the ledger.
C11_HighScoreIsMaxRecorded ==
    current_frame = "MainMenuFrame" =>
        IF ~scores.exists \/ scores.rows = <<>>
        THEN high_score = 0 /\ saves = 0
        ELSE /\ high_score = max_recorded
             /\ high_score = WpmKey(scores.rows[1])

\* the menu shows the highest WPM after six trials, the latest of them
\* slower, one row having been sliced off
C11_Witness ==
    /\ current_frame = "MainMenuFrame"
    /\ saves = MaxSaves
    /\ evicted # <<>>
    /\ high_score = 50 * MaxWpmHalves
    /\ WpmKey(new_entry[1]) < high_score

-----------------------------------------------------------------------------
(* Properties of the word bubble game, checked under SpecArcade *)

\* the game shown is over
GameOver == current_frame = "BubbleFrame" /\ game_over > 0

\* C12: strikes stays within 0..3, no step of a game raises it by more than
\* 1, and the game is over (running cleared by game_over) exactly when
\* strikes is 3: game_over runs in the step of the third floor collision,
\* not before and not after.
C12_GameOverExactlyAtThirdStrike ==
    /\ [](/\ strikes \in 0..MAX_STRIKES
          /\ game_over \in {0, 1}
          /\ game_over = 1 <=> strikes = MAX_STRIKES
          /\ game_over = 1 => ~game_running)
    /\ [][/\ current_frame = "BubbleFrame" => strikes' \in {strikes, strikes + 1}
          /\ game_over' > game_over =>
                 /\ strikes = MAX_STRIKES - 1
                 /\ strikes' = MAX_STRIKES
                 /\ bubbles # <<>>
                 /\ game_running /\ ~game_running']_vars

\* the third bubble has reached the floor
C12_Witness ==
    /\ current_frame = "BubbleFrame"
    /\ strikes = MAX_STRIKES
    /\ game_over = 1
    /\ ~game_running

\* C13: once the game is over no spawn callback, motion tick, key or input
\* event changes score, strikes, the live bubbles, speed or spawn interval,
\* no bubble is created, and the game stays over.
C13_GameOverIsAbsorbing ==
    [][GameOver =>
          /\ UNCHANGED <<score, strikes, bubbles, speed, spawn_interval>>
          /\ bubbles' = <<>>
          /\ game_over' = game_over
          /\ ~game_running']_vars

\* after the game ended both pending callbacks have run and returned, a word
\* was typed and check_word has run
C13_Witness ==
    /\ GameOver
    /\ spawn_pending = 0
    /\ motion_pending = 0
    /\ Strip(game_entry) = WordA
    /\ event = "check_word"

-----------------------------------------------------------------------------
(* Properties of the difficulty, checked under SpecDifficulty *)

\* a word was matched in the step: check_word removed a bubble that carried
\* the trimmed text of the entry and counted it
MatchStep ==
    /\ event' = "check_word"
    /\ score' = score + 1
    /\ Len(bubbles') = Len(bubbles) - 1
    /\ \E i \in 1..Len(bubbles) : bubbles[i].word = Strip(game_entry)

\* C14: speed stays within 2..25 and the spawn interval within 1200..2500;
\* during a game speed never decreases and the spawn interval never
\* increases, and only a word match changes either.
C14_DifficultyBoundedAndMonotone ==
    /\ [](/\ INITIAL_SPEED <= speed /\ speed <= MAX_SPEED
          /\ MIN_SPAWN_INTERVAL <= spawn_interval
          /\ spawn_interval <= INITIAL_SPAWN_INTERVAL)
    /\ [][current_frame = "BubbleFrame" =>
              /\ speed' >= speed
              /\ spawn_interval' <= spawn_interval
              /\ (speed' # speed \/ spawn_interval' # spawn_interval)
                     => MatchStep]_vars

\* both caps have been reached and a later milestone left them alone
C14_Witness ==
    /\ speed = MAX_SPEED
    /\ spawn_interval = MIN_SPAWN_INTERVAL
    /\ score = MaxDifficultyScore
    /\ score % SPEED_EVERY = 0
    /\ score % INTERVAL_EVERY = 0

\* floor(a / b) for a >= 0, b > 0
Floor(a, b) == a \div b

\* C15: after k matches of a game speed = min(25, 2 + floor(k / 5)) and
\* spawn interval = max(1200, 2500 - 100 * floor(k / 3)); a score divisible
\* by 15 moves both, each by its own rule, and at score 15 speed is 5 and
\* the spawn interval 2000.
C15_DifficultyIsStepFunctionOfScore ==
    /\ [](/\ speed = Min(25, 2 + Floor(score, 5))
          /\ spawn_interval = Max(1200, 2500 - 100 * Floor(score, 3))
          /\ score = 15 => speed = 5 /\ spawn_interval = 2000)
    /\ [][(score' = score + 1 /\ score' % 15 = 0) =>
              /\ speed' = IF speed < 25 THEN speed + 1 ELSE speed
              /\ spawn_interval' = IF spawn_interval > 1200
                                    THEN spawn_interval - 100
                                    ELSE spawn_interval]_vars

\* the fifteenth match of a game has just been made
C15_Witness ==
    /\ current_frame = "BubbleFrame"
    /\ event = "check_word"
    /\ score = 15
    /\ speed = 5
    /\ spawn_interval = 2000

-----------------------------------------------------------------------------
(* Properties of the word pool, checked under SpecArcade *)

\* the step draws a word: the first spawn of __init__, or a spawn callback
\* of a running game
DrawStep ==
    \/ event' = "BubbleFrame" /\ current_frame' = "BubbleFrame"
    \/ event' = "spawn_bubble" /\ game_running

\* the word the step has drawn: that of the bubble it appended
DrawnWord == bubbles'[Len(bubbles')].word

\* C16: with n >= 2 distinct words the draws of a game fall into cycles of
\* n draws without a repeat: a draw takes a word not drawn in the cycle so
\* far, the pool is refilled with the whole vocabulary only when it is
\* empty, which is after n draws, and only the first draw after a refill
\* may repeat an earlier word.
C16_PoolCyclesWithoutRepeat ==
    /\ [](Cardinality(Vocabulary) >= 2 /\ used_words # {} =>
              /\ words_pool \cap used_words = {}
              /\ words_pool \cup used_words = Vocabulary)
    /\ [][Cardinality(Vocabulary) >= 2 =>
              IF DrawStep
              THEN IF event' = "spawn_bubble" /\ words_pool # {}
                   THEN /\ DrawnWord \in words_pool
                        /\ DrawnWord \notin used_words
                        /\ words_pool' = words_pool \ {DrawnWord}
                        /\ used_words' = used_words \cup {DrawnWord}
                   ELSE /\ event' = "spawn_bubble" =>
                               Cardinality(used_words) = Cardinality(Vocabulary)
                        /\ DrawnWord \in Vocabulary
                        /\ words_pool' = Vocabulary \ {DrawnWord}
                        /\ used_words' = {DrawnWord}
              ELSE UNCHANGED <<words_pool, used_words>>]_vars

\* three words have been drawn and the fourth draw has refilled the pool
C16_Witness ==
    /\ Cardinality(Vocabulary) = 3
    /\ event = "spawn_bubble"
    /\ game_running
    /\ bubbles # <<>>
    /\ used_words = {bubbles[Len(bubbles)].word}
    /\ Cardinality(words_pool) = 2

-----------------------------------------------------------------------------
(* Properties of the start of a session, checked under SpecStart *)

\* C17: a session whose input list is empty starts with built-in content
\* and without an error: a trial started with no short passage (and, in
\* countdown mode, no long passage) types the default passage, and a game
\* started with no word shows its first bubble, no IndexError having been
\* raised in get_next_word.
C17_EmptyListsFallBackToDefaults ==
    /\ (/\ current_frame = "TypingFrame"
        /\ sentences = <<>>
        /\ mode = "countdown" => long_texts = <<>>)
           => text_to_type = DEFAULT_TEXT
    /\ index_errors = 0
    /\ (event = "BubbleFrame" /\ words = <<>>)
           => current_frame = "BubbleFrame" /\ Len(bubbles) = 1

-----------------------------------------------------------------------------
(* Properties of leaving a session, checked under SpecLeave *)

-----------------------------------------------------------------------------
(* Properties of the board, checked under SpecArcade *)

\* the step fires update_bubbles in a running game: once, or TicksPerStep
\* times in a row
MotionStep == event' = "update_bubbles" /\ game_running

\* the number of times the step fires it
TicksOfStep == IF fine_ticks' = fine_ticks + 1 THEN 1 ELSE TicksPerStep

\* C19: a motion tick in which a bubble reaches the floor (y >= 600) leaves
\* no live bubble, strikes one higher and the score as it was; a motion tick
\* in which none does leaves the bubbles, strikes and score as they were,
\* every bubble lower by the speed.  (For ticks fired in a row: by the speed
\* times their number, up to the tick of the collision.)
C19_FloorCollisionResetsTheBoard ==
    [][MotionStep =>
          /\ score' = score
          /\ IF \E i \in 1..Len(bubbles) :
                    bubbles[i].y + TicksOfStep * speed >= FLOOR_Y
             THEN /\ bubbles' = <<>>
                  /\ strikes' = strikes + 1
             ELSE /\ strikes' = strikes
                  /\ Len(bubbles') = Len(bubbles)
                  /\ \A i \in 1..Len(bubbles) :
                         /\ bubbles'[i].word = bubbles[i].word
                         /\ bubbles'[i].y = bubbles[i].y + TicksOfStep * speed]_vars

\* a single tick has taken a bubble to the floor: the board is empty and
\* the first strike counted
C19_Witness ==
    /\ event = "update_bubbles"
    /\ game_running
    /\ fine_ticks = 1
    /\ strikes = 1
    /\ score = 0
    /\ bubbles = <<>>

\* the sequence without its first element that carries the word
RECURSIVE WithoutFirst(_, _)
WithoutFirst(bs, typed) ==
    IF bs = <<>> THEN <<>>
    ELSE IF Head(bs).word = typed THEN Tail(bs)
    ELSE <<Head(bs)>> \o WithoutFirst(Tail(bs), typed)

\* C20: an input-change event whose trimmed text is the word of a live
\* bubble removes the first such bubble and no other, raises the score by 1
\* and clears the input; an input-change event whose trimmed text is empty
\* or matches no bubble changes nothing, a submit changes nothing but the
\* input, which it clears, and a key changes nothing but the input.
C20_OnlyAnExactMatchChangesTheGame ==
    [][/\ event' = "check_word" =>
             IF /\ Strip(game_entry) # <<>>
                /\ \E i \in 1..Len(bubbles) : bubbles[i].word = Strip(game_entry)
             THEN /\ bubbles' = WithoutFirst(bubbles, Strip(game_entry))
                  /\ Len(bubbles') = Len(bubbles) - 1
                  /\ score' = score + 1
                  /\ game_entry' = <<>>
                  /\ strikes' = strikes
             ELSE UNCHANGED <<score, strikes, bubbles, speed, spawn_interval,
                              game_entry>>
       /\ event' = "clear_entry" =>
             /\ UNCHANGED <<score, strikes, bubbles, speed, spawn_interval>>
             /\ game_entry' = <<>>
       /\ event' = "game_key" =>
             UNCHANGED <<score, strikes, bubbles, speed, spawn_interval>>]_vars

\* of two bubbles with the same word the older has been matched: the one
\* left has not moved yet
C20_Witness ==
    /\ event = "check_word"
    /\ Cardinality(Vocabulary) = 1
    /\ score = 1
    /\ strikes = 0
    /\ game_entry = <<>>
    /\ Len(bubbles) = 1
    /\ bubbles[1].y = SPAWN_Y

-----------------------------------------------------------------------------
(* The spawn scheduler, checked under SpecDifficulty *)

\* a step in which the spawn callback fires in a running game
SpawnStep == event' = "spawn_bubble" /\ game_running

\* C21: while the game is running, each firing of the spawn callback adds
\* exactly one bubble, at y = -30, behind the bubbles there were, and leaves
\* exactly one spawn pending, scheduled with the spawn interval as it is at
\* that moment; a match changes neither the number of pending spawns nor the
\* delay of the pending one, so that a new interval is first used by the
\* spawn scheduled after the match; at most one spawn is ever pending.
C21_SpawnReschedulesWithCurrentInterval ==
    /\ [](spawn_pending <= 1)
    /\ [][SpawnStep =>
            /\ Len(bubbles') = Len(bubbles) + 1
            /\ SubSeq(bubbles', 1, Len(bubbles)) = bubbles
            /\ bubbles'[Len(bubbles')].y = SPAWN_Y
            /\ spawn_pending' = 1
            /\ spawn_delay' = spawn_interval
            /\ spawn_interval' = spawn_interval]_vars
    /\ [][MatchStep =>
            /\ spawn_pending' = spawn_pending
            /\ spawn_delay' = spawn_delay]_vars

\* a spawn has fired in a running game after matches had shortened the
\* interval twice, and the next spawn is scheduled with the shortened interval
C21_Witness ==
    /\ current_frame = "BubbleFrame"
    /\ event = "spawn_bubble"
    /\ game_running
    /\ bubbles # <<>>
    /\ spawn_pending = 1
    /\ spawn_interval = INITIAL_SPAWN_INTERVAL - 2 * INTERVAL_STEP
    /\ spawn_delay = spawn_interval

-----------------------------------------------------------------------------
(* The game nobody plays, checked under SpecUnmatched *)

\* a step in which update_bubbles finds a bubble at the floor and clears a
\* board that was not empty
ClearStep == MotionStep /\ bubbles # <<>> /\ bubbles' = <<>>

\* the firing, counted within the step, in which the board is cleared
HitTick == QuietTicks(bubbles, speed, TicksOfStep) + 1

\* the height a bubble has come to by the firing that clears the board
HeightAtHit(b) == b.y + HitTick * speed

\* the game ends: three strikes, no point scored, no bubble left
EndsInGameOver ==
    (current_frame = "BubbleFrame")
        ~> (GameOver /\ strikes = MAX_STRIKES /\ score = 0 /\ bubbles = <<>>)

\* strikes are counted one at a time and never taken back
StrikesRiseByOne == [][strikes' \in {strikes, strikes + 1}]_vars

\* C22: in a game with a non-empty vocabulary in which no word is ever
\* matched, with the spawn and motion callbacks fired fairly, the game comes
\* to game over with three strikes, score 0 and an empty board, so that every
\* bubble, which is on the board of a game only, leaves it after finitely
\* many firings; the board is cleared only in a firing in which its oldest
\* bubble has reached the floor, and strikes rise one at a time.
C22_UnmatchedGameEndsInGameOver ==
    /\ EndsInGameOver
    /\ StrikesRiseByOne
    /\ [](bubbles # <<>> => current_frame = "BubbleFrame")
    /\ [][Len(bubbles') < Len(bubbles) =>
            /\ ClearStep
            /\ HeightAtHit(bubbles[1]) >= FLOOR_Y
            /\ strikes' = strikes + 1]_vars

\* the game is over after three strikes with score 0, both callbacks have
\* fired a last time and none is pending
C22_Witness ==
    /\ GameOver
    /\ strikes = MAX_STRIKES
    /\ score = 0
    /\ bubbles = <<>>
    /\ spawn_pending = 0
    /\ motion_pending = 0

\* C22 as stated: the same game ends in game over with three strikes and
\* score 0, strikes rising one at a time, and every spawned bubble reaches
\* the floor: each bubble that leaves the board has come to y >= 600.
C22_EverySpawnedBubbleReachesTheFloor ==
    /\ EndsInGameOver
    /\ StrikesRiseByOne
    /\ [][Len(bubbles') < Len(bubbles) =>
            /\ ClearStep
            /\ \A i \in 1..Len(bubbles) : HeightAtHit(bubbles[i]) >= FLOOR_Y]_vars

=============================================================================
